---- MODULE Spec2Model ----
(***************************************************************************)
(* Model of src/src/App.jsx: the fuzzy movie search of the App component.  *)
(*                                                                         *)
(* A JavaScript string is modelled as a sequence of one-character strings, *)
(* so that toLowerCase, trim, includes, split, substring, indexOf and the  *)
(* edit distance are computed the way the code computes them.              *)
(*                                                                         *)
(* A relevance score is a JavaScript number.  It is modelled exactly as    *)
(* an integer number of 1/Scale units, Scale being a common multiple of    *)
(* every denominator calculateRelevanceScore can produce on the strings of *)
(* the model (the word and title lengths, the query length), and the       *)
(* vote counts of the model's catalog are multiples of 500.  The rounding  *)
(* of floating-point sums is not modelled.                                 *)
(***************************************************************************)
EXTENDS Integers, Sequences, FiniteSets, TLC

VARIABLES debouncedSearchTerm, movieList, errorMessage, isLoading,
          cycles, fetchCount, faultCount, lastRun

vars == <<debouncedSearchTerm, movieList, errorMessage, isLoading,
          cycles, fetchCount, faultCount, lastRun>>

(***************************************************************************)
(* Strings                                                                 *)
(***************************************************************************)
Min(a, b) == IF a <= b THEN a ELSE b

Max(a, b) == IF a >= b THEN a ELSE b

UpperChars == <<"A","B","C","D","E","F","G","H","I","J","K","L","M",
                "N","O","P","Q","R","S","T","U","V","W","X","Y","Z">>

LowerChars == <<"a","b","c","d","e","f","g","h","i","j","k","l","m",
                "n","o","p","q","r","s","t","u","v","w","x","y","z">>

\* String.prototype.toLowerCase, one character
toLowerChar(c) ==
    IF \E k \in 1..Len(UpperChars) : UpperChars[k] = c
    THEN LowerChars[CHOOSE k \in 1..Len(UpperChars) : UpperChars[k] = c]
    ELSE c

\* String.prototype.toLowerCase
toLowerCase(s) == [k \in 1..Len(s) |-> toLowerChar(s[k])]

RECURSIVE trimStart(_)
trimStart(s) ==
    IF s # <<>> /\ Head(s) = " " THEN trimStart(Tail(s)) ELSE s

RECURSIVE trimEnd(_)
trimEnd(s) ==
    IF s # <<>> /\ s[Len(s)] = " " THEN trimEnd(SubSeq(s, 1, Len(s) - 1)) ELSE s

\* String.prototype.trim (the only white space of the model is the space)
trim(s) == trimEnd(trimStart(s))

\* String.prototype.substring(from, to), 0-based, to exclusive
substring(s, from, to) == SubSeq(s, Min(from, Len(s)) + 1, Min(to, Len(s)))

\* String.prototype.startsWith
startsWith(s, t) == Len(t) <= Len(s) /\ SubSeq(s, 1, Len(t)) = t

\* String.prototype.includes
includes(s, t) ==
    \E k \in 0..(Len(s) - Len(t)) : SubSeq(s, k + 1, k + Len(t)) = t

\* String.prototype.indexOf(char, from), 0-based, -1 when absent
indexOf(s, c, from) ==
    IF \E k \in (from + 1)..Len(s) : s[k] = c
    THEN (CHOOSE k \in (from + 1)..Len(s) :
              s[k] = c /\ \A j \in (from + 1)..(k - 1) : s[j] # c) - 1
    ELSE -1

\* String.prototype.split(" "): the pieces between single spaces
RECURSIVE splitFrom(_, _, _)
splitFrom(s, k, piece) ==
    IF k > Len(s) THEN <<piece>>
    ELSE IF s[k] = " " THEN <<piece>> \o splitFrom(s, k + 1, <<>>)
    ELSE splitFrom(s, k + 1, Append(piece, s[k]))

split(s) == splitFrom(s, 1, <<>>)

\* Array.prototype.includes
arrayIncludes(arr, x) == \E k \in 1..Len(arr) : arr[k] = x

(***************************************************************************)
(* preprocessSearchTerm                                                    *)
(***************************************************************************)
S_spiderman == <<"s","p","i","d","e","r","m","a","n">>
S_spider_man == <<"s","p","i","d","e","r","-","m","a","n">>
S_xmen == <<"x","m","e","n">>
S_x_men == <<"x","-","m","e","n">>
S_batman == <<"b","a","t","m","a","n">>
S_superman == <<"s","u","p","e","r","m","a","n">>
S_ironman == <<"i","r","o","n","m","a","n">>
S_iron_man == <<"i","r","o","n"," ","m","a","n">>
S_kerete == <<"k","e","r","e","t","e">>
S_kerate == <<"k","e","r","a","t","e">>
S_karete == <<"k","a","r","e","t","e">>
S_karate == <<"k","a","r","a","t","e">>
S_dimon == <<"d","i","m","o","n">>
S_deamon == <<"d","e","a","m","o","n">>
S_daemon == <<"d","a","e","m","o","n">>
S_demon == <<"d","e","m","o","n">>
S_constructor == <<"c","o","n","s","t","r","u","c","t","o","r">>
S___proto__ == <<"_","_","p","r","o","t","o","_","_">>

\* the own properties of the object literal `corrections`
corrections ==
    (S_spiderman :> S_spider_man) @@ (S_xmen :> S_x_men) @@
    (S_batman :> S_batman) @@ (S_superman :> S_superman) @@
    (S_ironman :> S_iron_man) @@ (S_kerete :> S_karate) @@
    (S_kerate :> S_karate) @@ (S_karete :> S_karate) @@
    (S_dimon :> S_demon) @@ (S_deamon :> S_demon) @@ (S_daemon :> S_demon)

\* `corrections` is an object literal, so corrections[key] also finds what the
\* literal inherits from Object.prototype.  A key is lower-cased before the
\* lookup, and the inherited names that are all lower case are these two:
\* corrections["constructor"] is the function Object and
\* corrections["__proto__"] is the object Object.prototype.  Both are truthy.
InheritedKeys == {S_constructor, S___proto__}

\* a value that is not a string (the function Object, or Object.prototype)
NotAString == <<"[object]">>

preprocessSearchTerm(term) ==
    LET lowerTerm == trim(toLowerCase(term))
    IN  IF lowerTerm \in DOMAIN corrections THEN corrections[lowerTerm]
        ELSE IF lowerTerm \in InheritedKeys THEN NotAString
        ELSE term

(***************************************************************************)
(* generateSearchVariations                                                *)
(***************************************************************************)
\* substitutions[char] for a single character char, <<>> when the table has no
\* such key.  The keys "ph", "tion" and "sion" of the table are never looked
\* up: the loop indexes the table with lowerTerm[i], one character.
substitutions(char) ==
    CASE char = "i" -> << <<"e">>, <<"a">> >>
      [] char = "e" -> << <<"i">>, <<"a">> >>
      [] char = "a" -> << <<"e">>, <<"i">> >>
      [] char = "o" -> << <<"u">>, <<"a">> >>
      [] char = "u" -> << <<"o">>, <<"i">> >>
      [] char = "y" -> << <<"i">>, <<"e">> >>
      [] char = "c" -> << <<"k">>, <<"s">> >>
      [] char = "k" -> << <<"c">>, <<"c","k">> >>
      [] char = "s" -> << <<"c">>, <<"z">> >>
      [] char = "z" -> << <<"s">> >>
      [] char = "f" -> << <<"p","h">> >>
      [] OTHER -> <<>>

\* the two nested loops: position i (1-based here), substitute number j
RECURSIVE variationsFrom(_, _, _, _)
variationsFrom(lowerTerm, i, j, variations) ==
    IF i > Len(lowerTerm) THEN variations
    ELSE IF j > Len(substitutions(lowerTerm[i]))
         THEN variationsFrom(lowerTerm, i + 1, 1, variations)
    ELSE LET variation == SubSeq(lowerTerm, 1, i - 1)
                          \o substitutions(lowerTerm[i])[j]
                          \o SubSeq(lowerTerm, i + 1, Len(lowerTerm))
         IN  variationsFrom(lowerTerm, i, j + 1,
                 IF variation # lowerTerm /\ ~arrayIncludes(variations, variation)
                 THEN Append(variations, variation)
                 ELSE variations)

generateSearchVariations(term) ==
    variationsFrom(toLowerCase(term), 1, 1, <<term>>)

(***************************************************************************)
(* levenshteinDistance                                                     *)
(***************************************************************************)
\* one row of the matrix: row is matrix[i][0..j-1] so far, prev is matrix[i-1]
RECURSIVE levenshteinRow(_, _, _, _, _)
levenshteinRow(prev, row, i, str1, str2) ==
    LET j == Len(row)
    IN  IF j > Len(str1) THEN row
        ELSE levenshteinRow(prev,
                 Append(row,
                     IF str2[i] = str1[j]
                     THEN prev[j]
                     ELSE Min(prev[j] + 1, Min(row[j] + 1, prev[j + 1] + 1))),
                 i, str1, str2)

RECURSIVE levenshteinRows(_, _, _, _)
levenshteinRows(prev, i, str1, str2) ==
    IF i > Len(str2) THEN prev
    ELSE levenshteinRows(levenshteinRow(prev, <<i>>, i, str1, str2),
                         i + 1, str1, str2)

levenshteinDistance(str1, str2) ==
    levenshteinRows([j \in 1..(Len(str1) + 1) |-> j - 1], 1, str1, str2)
        [Len(str1) + 1]

(***************************************************************************)
(* The catalog service (the remote API): what a request can come back with *)
(***************************************************************************)
Movie(id, title, overview, vote_average, vote_count) ==
    [id |-> id, title |-> title, overview |-> overview,
     vote_average |-> vote_average, vote_count |-> vote_count]

T_b == <<"b">>
T_ab == <<"a","b">>
T_Ab_b == <<"A","b"," ","b">>
T_abba == <<"a","b","b","a">>
T_eb == <<"e","b">>
T_cab == <<"c","a","b">>
T_SpiderMan == <<"S","p","i","d","e","r","-","M","a","n">>
T_Spirit == <<"S","p","i","r","i","t">>
T_XMen == <<"X","-","M","e","n">>
T_IronMan == <<"I","r","o","n"," ","M","a","n">>
T_Iron == <<"I","r","o","n">>
T_Popular == <<"P","o","p">>

FillerTitles == <<T_ab, T_Ab_b, T_b, T_abba, T_eb, T_cab>>

\* a page of small movies: ids from..to, titles, overviews and votes varying
FillerMovie(id, salt) ==
    Movie(id, FillerTitles[(id % Len(FillerTitles)) + 1],
          IF id % 4 = 0 THEN T_cab ELSE <<>>,
          (id * 3 + salt) % 10, ((id * 7 + salt) % 4) * 2500)

FillerPage(from, to, salt) ==
    [k \in 1..(to - from + 1) |-> FillerMovie(from + k - 1, salt)]

SpiderManMovie == Movie(40, T_SpiderMan, <<>>, 7, 9000)
SpiritMovie == Movie(41, T_Spirit, S_spiderman, 6, 500)
XMenMovie == Movie(30, T_XMen, <<>>, 7, 8000)
IronManMovie == Movie(50, T_IronMan, <<>>, 8, 9500)
IronMovie == Movie(51, T_Iron, S_iron_man, 5, 1000)

\* the results of a successful search request for q
SearchPage(q) ==
    CASE q = <<"b">> -> <<FillerMovie(2, 0), FillerMovie(1, 0), FillerMovie(2, 1)>>
      [] q = <<"a","b">> -> FillerPage(1, 12, 0)
      [] q = <<"e","b">> -> FillerPage(10, 21, 1)
      [] q = <<"i","b">> -> <<FillerMovie(22, 0), FillerMovie(1, 1)>>
      [] q = S_spider_man -> <<SpiderManMovie>>
      [] q = <<"s","p","i">> -> <<SpiritMovie, SpiderManMovie>>
      [] q = S_x_men -> <<XMenMovie>>
      [] q = <<"x","-","m">> -> <<XMenMovie, SpiderManMovie>>
      [] q = S_iron_man -> <<IronManMovie>>
      [] q = <<"i","r","o","n">> -> <<IronMovie, IronManMovie>>
      [] q = <<"m","a","n">> -> <<SpiderManMovie, IronManMovie>>
      [] q = <<"i","r","o">> -> <<IronMovie>>
      [] OTHER -> <<>>

\* the results of a successful discover request
DiscoverPage == <<Movie(60, T_Popular, <<>>, 9, 9000), IronManMovie, XMenMovie>>

\* the terms the user types into the search box
Terms == {<<>>, <<"b">>, <<"a","b">>, S_xmen, S_spiderman, S_iron_man,
          S_constructor}

(***************************************************************************)
(* Scores: integers in units of 1/Scale                                    *)
(***************************************************************************)
RECURSIVE Gcd(_, _)
Gcd(a, b) == IF b = 0 THEN a ELSE Gcd(b, a % b)

RECURSIVE LcmUpTo(_)
LcmUpTo(n) == IF n <= 1 THEN 1 ELSE LET l == LcmUpTo(n - 1) IN (l \div Gcd(l, n)) * n

\* the longest string a score is computed on
MaxNameLen == Len(S_constructor)

Scale == LcmUpTo(MaxNameLen)

(***************************************************************************)
(* calculateFuzzyScore, calculateRelevanceScore                            *)
(***************************************************************************)
\* the loop of calculateFuzzyScore: matchCount after the characters k.. of query
RECURSIVE fuzzyMatchCount(_, _, _, _, _)
fuzzyMatchCount(text, query, k, lastIndex, matchCount) ==
    IF k > Len(query) THEN matchCount
    ELSE LET index == indexOf(text, query[k], lastIndex + 1)
         IN  IF index > lastIndex
             THEN fuzzyMatchCount(text, query, k + 1, index, matchCount + 1)
             ELSE fuzzyMatchCount(text, query, k + 1, lastIndex, matchCount)

\* matchCount / query.length, for a non-empty query
calculateFuzzyScore(text, query) ==
    fuzzyMatchCount(text, query, 1, -1, 0) * (Scale \div Len(query))

\* similarity * 60 of one pair of words when similarity > 0.6, else 0.
\* Two empty words give 0 / 0 = NaN, and NaN > 0.6 is false.
wordMatch(titleWord, queryWord) ==
    LET distance == levenshteinDistance(titleWord, queryWord)
        maxLen == Max(Len(titleWord), Len(queryWord))
    IN  IF maxLen > 0 /\ (maxLen - distance) * 10 > 6 * maxLen
        THEN (maxLen - distance) * (Scale \div maxLen) * 60
        ELSE 0

RECURSIVE SeqMax(_)
SeqMax(s) == IF s = <<>> THEN 0 ELSE Max(Head(s), SeqMax(Tail(s)))

bestWordMatch(titleWords, queryWords) ==
    SeqMax([k \in 1..(Len(titleWords) * Len(queryWords)) |->
               wordMatch(titleWords[((k - 1) \div Len(queryWords)) + 1],
                         queryWords[((k - 1) % Len(queryWords)) + 1])])

\* the +100, +80, +70 and +30 components
exactBonus(titleLower, queryLower) ==
    IF titleLower = queryLower THEN 100 * Scale ELSE 0

containsBonus(titleLower, queryLower) ==
    IF includes(titleLower, queryLower) THEN 80 * Scale ELSE 0

startsWithBonus(titleLower, queryLower) ==
    IF startsWith(titleLower, queryLower) THEN 70 * Scale ELSE 0

overviewBonus(overviewLower, queryLower) ==
    IF includes(overviewLower, queryLower) THEN 30 * Scale ELSE 0

\* the full-title fuzzy match: similarity * 40 when similarity > 0.5
titleSimilarityBonus(titleLower, queryLower) ==
    LET titleDistance == levenshteinDistance(titleLower, queryLower)
        titleMaxLen == Max(Len(titleLower), Len(queryLower))
    IN  IF (titleMaxLen - titleDistance) * 2 > titleMaxLen
        THEN (titleMaxLen - titleDistance) * (Scale \div titleMaxLen) * 40
        ELSE 0

\* vote_average * 1 + min(vote_count / 1000, 5)
popularityBoost(movie) ==
    movie.vote_average * Scale
    + Min((movie.vote_count * Scale) \div 1000, 5 * Scale)

\* for a non-empty query
calculateRelevanceScore(movie, query) ==
    LET queryLower == toLowerCase(query)
        titleLower == toLowerCase(movie.title)
        overviewLower == toLowerCase(movie.overview)
    IN  exactBonus(titleLower, queryLower)
        + containsBonus(titleLower, queryLower)
        + startsWithBonus(titleLower, queryLower)
        + overviewBonus(overviewLower, queryLower)
        + bestWordMatch(split(titleLower), split(queryLower))
        + titleSimilarityBonus(titleLower, queryLower)
        + calculateFuzzyScore(titleLower, queryLower) * 20
        + popularityBoost(movie)

(***************************************************************************)
(* Bounds                                                                  *)
(***************************************************************************)
\* fetchMovies invocations in one run (the first is the one of the mount)
MaxCycles == 2

\* fetch() calls in one run
MaxRequests == 8

\* failures of the outside world in one run: fetches that reject or settle to
\* anything but a success with a list of results, rejected counter calls
MaxFaults == 2

(***************************************************************************)
(* fetchMovies: the requests of one cycle                                  *)
(***************************************************************************)
\* the end of searchVariations.slice(1, 4)
VariationSliceEnd == 4

\* the end of processedQuery.substring(0, 3)
PrefixLength == 3

\* the end of .slice(0, 20)
TopN == 20

ErrorText == "Error fetching movies. Please try again later."

\* a fetch() call.  encodeURIComponent is injective, so a search URL is
\* identified by the query string it encodes.
SearchRequest(q) == [endpoint |-> "search/movie", query |-> q]

DiscoverRequest == [endpoint |-> "discover/movie", query |-> <<>>]

\* searchVariations.slice(1, 4)
variationSlice(searchVariations) ==
    SubSeq(searchVariations, 2, Min(VariationSliceEnd, Len(searchVariations)))

\* processedQuery.includes(" ") ? processedQuery.split(" ") : []
wordQueries(processedQuery) ==
    IF includes(processedQuery, <<" ">>) THEN split(processedQuery) ELSE <<>>

\* the array searchPromises, in the order of the array literal
searchPromises(processedQuery) ==
    LET searchVariations == generateSearchVariations(processedQuery)
        queries == <<processedQuery>>
                   \o variationSlice(searchVariations)
                   \o wordQueries(processedQuery)
                   \o <<substring(processedQuery, 0, PrefixLength)>>
    IN  [k \in 1..Len(queries) |-> SearchRequest(queries[k])]

(***************************************************************************)
(* fetchMovies: from the responses to the ranked list                      *)
(***************************************************************************)
\* What a settled fetch can be: "ok" (response.ok, a body with results),
\* "noresults" (response.ok, a body without results), "badjson" (response.ok,
\* response.json() rejects), "notok" (response.ok false).  "reject" is a fetch
\* that rejected and "pending" one that has not settled.
FulfilledKinds == {"ok", "noresults", "badjson", "notok"}

Response(kind, results) == [kind |-> kind, results |-> results]

SearchResponse(kind, request) ==
    Response(kind, IF kind = "ok" THEN SearchPage(request.query) ELSE <<>>)

\* the loop over responses: allResults, for responses whose bodies all parse
RECURSIVE collectResults(_, _, _)
collectResults(responses, k, allResults) ==
    IF k > Len(responses) THEN allResults
    ELSE collectResults(responses, k + 1,
             IF responses[k].kind = "ok"
             THEN allResults \o responses[k].results
             ELSE allResults)

\* a filter that kept the last occurrence of an identifier
findLastIndexById(self, id) == CHOOSE k \in 1..Len(self) :
    self[k].id = id /\ \A j \in (k + 1)..Len(self) : self[j].id # id

\* self.findIndex((m) => m.id === movie.id), 1-based here
findIndexById(self, id) == CHOOSE k \in 1..Len(self) :
    self[k].id = id /\ \A j \in 1..(k - 1) : self[j].id # id

\* allResults.filter((movie, index, self) => index === self.findIndex(...))
removeDuplicates(allResults) ==
    SelectSeq([k \in 1..Len(allResults) |->
                  [index |-> k, movie |-> allResults[k]]],
              LAMBDA e : e.index = findIndexById(allResults, e.movie.id))

uniqueResultsOf(allResults) ==
    LET kept == removeDuplicates(allResults)
    IN  [k \in 1..Len(kept) |-> kept[k].movie]

\* every query string a request of the model can carry, and every movie a
\* page of the model can hold
RequestQueries ==
    UNION {{searchPromises(preprocessSearchTerm(t))[k].query :
               k \in 1..Len(searchPromises(preprocessSearchTerm(t)))} :
           t \in {u \in Terms : u # <<>> /\ preprocessSearchTerm(u) # NotAString}}

CatalogMovies ==
    UNION {{SearchPage(q)[k] : k \in 1..Len(SearchPage(q))} : q \in RequestQueries}

ScoringQueries ==
    {t \in Terms \cup {preprocessSearchTerm(u) : u \in Terms} :
        t # <<>> /\ t # NotAString}

\* calculateRelevanceScore, tabulated once over the movies and queries of the
\* model (it is a pure function)
RelevanceScores ==
    [q \in ScoringQueries |->
        [movie \in CatalogMovies |-> calculateRelevanceScore(movie, q)]]

\* { ...movie, relevanceScore: calculateRelevanceScore(movie, query) }
withScore(movie, scoringQuery) ==
    [id |-> movie.id, title |-> movie.title, overview |-> movie.overview,
     vote_average |-> movie.vote_average, vote_count |-> movie.vote_count,
     relevanceScore |-> RelevanceScores[scoringQuery][movie]]

\* scores computed with the processed query
scoringQueryProcessed(query, processedQuery) == processedQuery

\* the query the scores are computed with: the original one
scoringQueryOf(query, processedQuery) == query

\* a sort with the comparator the other way round
RECURSIVE insertByScoreAscending(_, _)
insertByScoreAscending(sorted, x) ==
    IF sorted = <<>> THEN <<x>>
    ELSE IF Head(sorted).relevanceScore <= x.relevanceScore
         THEN <<Head(sorted)>> \o insertByScoreAscending(Tail(sorted), x)
         ELSE <<x>> \o sorted

\* .sort((a, b) => b.relevanceScore - a.relevanceScore): Array.prototype.sort
\* is stable, so equal scores keep their order
RECURSIVE insertByScore(_, _)
insertByScore(sorted, x) ==
    IF sorted = <<>> THEN <<x>>
    ELSE IF Head(sorted).relevanceScore >= x.relevanceScore
         THEN <<Head(sorted)>> \o insertByScore(Tail(sorted), x)
         ELSE <<x>> \o sorted

RECURSIVE sortByRelevance(_, _)
sortByRelevance(scoredResults, k) ==
    IF k = 0 THEN <<>>
    ELSE insertByScore(sortByRelevance(scoredResults, k - 1), scoredResults[k])

\* .slice(0, 20)
topResults(sorted) == SubSeq(sorted, 1, Min(TopN, Len(sorted)))

\* a counter call that is not guarded by sortedResults.length > 0
counterCallsUnguarded(query, sortedResults) ==
    <<[query |-> query,
       movie |-> IF Len(sortedResults) > 0 THEN sortedResults[1]
                 ELSE [id |-> 0]]>>

\* if (sortedResults.length > 0) await updateSearchCount(query, sortedResults[0])
counterCallsOf(query, sortedResults) ==
    IF Len(sortedResults) > 0
    THEN <<[query |-> query, movie |-> sortedResults[1]]>>
    ELSE <<>>

\* a discover path without the status check
discoverThrowsNoStatusCheck(kind) == kind = "badjson"

\* if (!response.ok) throw ..., and response.json() rejecting
discoverThrows(kind) == kind \in {"notok", "badjson"}

sortedResultsOf(uniqueResults, scoringQuery) ==
    LET scoredResults == [k \in 1..Len(uniqueResults) |->
                             withScore(uniqueResults[k], scoringQuery)]
    IN  topResults(sortByRelevance(scoredResults, Len(scoredResults)))

(***************************************************************************)
(* The state machine                                                       *)
(*                                                                         *)
(* cycles[c] is the c-th invocation of fetchMovies: its argument, where it *)
(* stands (pc), the fetch() calls it made, its local sortedResults,        *)
(* whether it called setMovieList, the exception its catch block caught    *)
(* ("" for none) and the calls it made to updateSearchCount.               *)
(* lastRun is the piece of fetchMovies that ran last: the cycle it belongs *)
(* to, the responses it was resumed with, and its local uniqueResults.     *)
(* fetchCount and faultCount count the fetch() calls and the failures of   *)
(* the outside world so far, to bound the run.                             *)
(***************************************************************************)
NewCycle(query, pc, requests, error) ==
    [query |-> query, pc |-> pc, requests |-> requests,
     sortedResults |-> <<>>, didSetMovieList |-> FALSE, error |-> error,
     counterCalls |-> <<>>]

Ran(c, responses, uniqueResults) ==
    [cycle |-> c, responses |-> responses, uniqueResults |-> uniqueResults]

Init ==
    /\ debouncedSearchTerm = <<>>
    /\ movieList = <<>>
    /\ errorMessage = ""
    /\ isLoading = FALSE
    /\ cycles = <<>>
    /\ fetchCount = 0
    /\ faultCount = 0
    /\ lastRun = Ran(0, <<>>, <<>>)

\* fetchMovies(query) up to its first await.  generateSearchVariations calls
\* term.toLowerCase(), which throws a TypeError when preprocessSearchTerm
\* returned something that is not a string; the throw is inside the try, so
\* the catch and the finally blocks run before fetchMovies returns.
fetchMovies(query) ==
    LET processedQuery == preprocessSearchTerm(query)
        throws == query # <<>> /\ processedQuery = NotAString
        requests == IF query = <<>> THEN <<DiscoverRequest>>
                    ELSE IF throws THEN <<>>
                    ELSE searchPromises(processedQuery)
    IN  /\ Len(cycles) < MaxCycles
        /\ fetchCount + Len(requests) <= MaxRequests
        /\ fetchCount' = fetchCount + Len(requests)
        /\ cycles' = Append(cycles,
               IF throws THEN NewCycle(query, "done", requests, "TypeError")
               ELSE NewCycle(query, "awaitFetch", requests, ""))
        /\ isLoading' = ~throws
        /\ errorMessage' = IF throws THEN ErrorText ELSE ""
        /\ lastRun' = Ran(Len(cycles) + 1, <<>>, <<>>)
        /\ UNCHANGED <<movieList, faultCount>>

\* useEffect(() => { fetchMovies(debouncedSearchTerm) }, [debouncedSearchTerm])
\* after the first render
Mount ==
    /\ cycles = <<>>
    /\ fetchMovies(debouncedSearchTerm)
    /\ UNCHANGED debouncedSearchTerm

\* the debounce callback sets a new term, and the effect runs fetchMovies
SetDebouncedSearchTerm ==
    \E term \in Terms :
        /\ cycles # <<>>
        /\ term # debouncedSearchTerm
        /\ debouncedSearchTerm' = term
        /\ fetchMovies(term)

\* the catch block, then the finally block
CatchAndFinally(c, responses, error) ==
    /\ cycles' = [cycles EXCEPT ![c].pc = "done", ![c].error = error]
    /\ errorMessage' = ErrorText
    /\ isLoading' = FALSE
    /\ lastRun' = Ran(c, responses, <<>>)
    /\ UNCHANGED movieList

\* await Promise.all(searchPromises) throws: fetch number k rejected, before
\* the others (whatever they do later has no effect on the program)
PromiseAllRejected(c) ==
    /\ cycles[c].pc = "awaitFetch"
    /\ cycles[c].query # <<>>
    /\ faultCount < MaxFaults
    /\ faultCount' = faultCount + 1
    /\ \E k \in 1..Len(cycles[c].requests) :
           CatchAndFinally(c,
               [j \in 1..Len(cycles[c].requests) |->
                   Response(IF j = k THEN "reject" ELSE "pending", <<>>)],
               "TypeError")
    /\ UNCHANGED <<debouncedSearchTerm, fetchCount>>

\* the number of responses that are not a success with a list of results
Faults(kinds) == Cardinality({k \in DOMAIN kinds : kinds[k] # "ok"})

\* await Promise.all(searchPromises) returns the responses, in the order of
\* searchPromises; then the loop, the filter, the scores, the sort, the slice,
\* setMovieList and the call of updateSearchCount, up to its await
PromiseAllFulfilled(c) ==
    /\ cycles[c].pc = "awaitFetch"
    /\ cycles[c].query # <<>>
    /\ \E kinds \in [1..Len(cycles[c].requests) -> FulfilledKinds] :
           /\ faultCount + Faults(kinds) <= MaxFaults
           /\ faultCount' = faultCount + Faults(kinds)
           /\ LET query == cycles[c].query
                  responses == [k \in 1..Len(kinds) |->
                                   SearchResponse(kinds[k], cycles[c].requests[k])]
                  uniqueResults == uniqueResultsOf(collectResults(responses, 1, <<>>))
                  sortedResults ==
                      sortedResultsOf(uniqueResults,
                          scoringQueryOf(query, preprocessSearchTerm(query)))
              IN  IF \E k \in 1..Len(kinds) : kinds[k] = "badjson"
                  THEN CatchAndFinally(c, responses, "SyntaxError")
                  ELSE /\ movieList' = sortedResults
                       /\ cycles' = [cycles EXCEPT
                              ![c].sortedResults = sortedResults,
                              ![c].didSetMovieList = TRUE,
                              ![c].pc = IF Len(sortedResults) > 0
                                        THEN "awaitCounter" ELSE "done",
                              ![c].counterCalls =
                                  counterCallsOf(query, sortedResults)]
                       /\ isLoading' = IF Len(sortedResults) > 0
                                       THEN isLoading ELSE FALSE
                       /\ lastRun' = Ran(c, responses, uniqueResults)
                       /\ UNCHANGED errorMessage
    /\ UNCHANGED <<debouncedSearchTerm, fetchCount>>

\* await updateSearchCount(query, sortedResults[0]) returns: the finally block
UpdateSearchCountFulfilled(c) ==
    /\ cycles[c].pc = "awaitCounter"
    /\ cycles' = [cycles EXCEPT ![c].pc = "done"]
    /\ isLoading' = FALSE
    /\ lastRun' = Ran(c, <<>>, <<>>)
    /\ UNCHANGED <<debouncedSearchTerm, movieList, errorMessage, fetchCount,
                   faultCount>>

\* await updateSearchCount(query, sortedResults[0]) throws
UpdateSearchCountRejected(c) ==
    /\ cycles[c].pc = "awaitCounter"
    /\ faultCount < MaxFaults
    /\ faultCount' = faultCount + 1
    /\ CatchAndFinally(c, <<>>, "CounterError")
    /\ UNCHANGED <<debouncedSearchTerm, fetchCount>>

\* await fetch(endpoint, API_OPTIONS) throws (the empty query)
DiscoverRejected(c) ==
    /\ cycles[c].pc = "awaitFetch"
    /\ cycles[c].query = <<>>
    /\ faultCount < MaxFaults
    /\ faultCount' = faultCount + 1
    /\ CatchAndFinally(c, <<Response("reject", <<>>)>>, "TypeError")
    /\ UNCHANGED <<debouncedSearchTerm, fetchCount>>

\* await fetch(endpoint, API_OPTIONS) returns (the empty query): the status
\* check, response.json() and setMovieList(data.results || [])
DiscoverFulfilled(c) ==
    /\ cycles[c].pc = "awaitFetch"
    /\ cycles[c].query = <<>>
    /\ \E kind \in FulfilledKinds :
           /\ faultCount + (IF kind = "ok" THEN 0 ELSE 1) <= MaxFaults
           /\ faultCount' = faultCount + (IF kind = "ok" THEN 0 ELSE 1)
           /\ LET response == Response(kind, IF kind = "ok" THEN DiscoverPage ELSE <<>>)
              IN  IF discoverThrows(kind)
                  THEN CatchAndFinally(c, <<response>>,
                           IF kind = "notok" THEN "Error" ELSE "SyntaxError")
                  ELSE /\ movieList' = response.results
                       /\ cycles' = [cycles EXCEPT ![c].sortedResults = response.results,
                                                   ![c].didSetMovieList = TRUE,
                                                   ![c].pc = "done"]
                       /\ isLoading' = FALSE
                       /\ lastRun' = Ran(c, <<response>>, <<>>)
                       /\ UNCHANGED errorMessage
    /\ UNCHANGED <<debouncedSearchTerm, fetchCount>>

Next ==
    \/ Mount
    \/ SetDebouncedSearchTerm
    \/ \E c \in 1..Len(cycles) : PromiseAllRejected(c)
    \/ \E c \in 1..Len(cycles) : PromiseAllFulfilled(c)
    \/ \E c \in 1..Len(cycles) : UpdateSearchCountFulfilled(c)
    \/ \E c \in 1..Len(cycles) : UpdateSearchCountRejected(c)
    \/ \E c \in 1..Len(cycles) : DiscoverRejected(c)
    \/ \E c \in 1..Len(cycles) : DiscoverFulfilled(c)

Spec == Init /\ [][Next]_vars

(***************************************************************************)
(* Properties                                                              *)
(***************************************************************************)
Cycles == 1..Len(cycles)

\* cycle c searched, and the code that ran last is its merge of the responses
\* Promise.all returned
JustMerged(c) ==
    /\ lastRun.cycle = c
    /\ cycles[c].query # <<>>
    /\ lastRun.responses # <<>>
    /\ cycles[c].didSetMovieList

\* cycle c is the one of an empty query, and the code that ran last is what
\* follows its discover request
JustDiscovered(c) ==
    /\ lastRun.cycle = c
    /\ cycles[c].query = <<>>
    /\ lastRun.responses # <<>>

\* the identifiers of a list are pairwise different
DistinctIds(list) ==
    \A i, j \in 1..Len(list) : i # j => list[i].id # list[j].id

\* a movie without the score attached to it
Unscored(m) == Movie(m.id, m.title, m.overview, m.vote_average, m.vote_count)

\* C1: a search whose sub-requests fail (a rejected fetch, a non-success
\* status, a body that does not parse or has no list) is not aborted: no error
\* is caught, no error message is set, and the movie list is the ranked list of
\* the items of the sub-requests that succeeded.
C1_FailuresDoNotAbort ==
    \A c \in Cycles :
        (lastRun.cycle = c /\ cycles[c].query # <<>> /\ lastRun.responses # <<>>)
        => /\ cycles[c].error = ""
           /\ errorMessage = ""
           /\ cycles[c].didSetMovieList
           /\ movieList =
                  sortedResultsOf(
                      uniqueResultsOf(collectResults(lastRun.responses, 1, <<>>)),
                      cycles[c].query)

\* C2: the empty query makes exactly one request, to the discover endpoint,
\* and never reports to the counter; when the request fails the error message
\* is set and the movie list is not replaced (it is still the initial empty
\* list or what another cycle set); when it succeeds with a list, the movie
\* list is exactly that list, unscored, in the given order.
C2_EmptyQueryDiscover ==
    \A c \in Cycles :
        cycles[c].query = <<>>
        => /\ cycles[c].requests = <<DiscoverRequest>>
           /\ cycles[c].counterCalls = <<>>
           /\ (JustDiscovered(c)
               /\ lastRun.responses[1].kind \in {"reject", "notok", "badjson"})
              => /\ errorMessage = ErrorText
                 /\ cycles[c].error # ""
                 /\ ~cycles[c].didSetMovieList
                 /\ \/ movieList = <<>>
                    \/ \E d \in Cycles \ {c} :
                           /\ cycles[d].didSetMovieList
                           /\ movieList = cycles[d].sortedResults
                 /\ ~isLoading
           /\ (JustDiscovered(c) /\ lastRun.responses[1].kind = "ok")
              => /\ movieList = lastRun.responses[1].results
                 /\ movieList = DiscoverPage
                 /\ cycles[c].error = ""
                 /\ ~isLoading

\* a failed discover request leaves the results of a search on the screen
C2_Witness ==
    \E c \in Cycles :
        /\ JustDiscovered(c)
        /\ lastRun.responses[1].kind = "notok"
        /\ errorMessage = ErrorText
        /\ movieList # <<>>

\* C3: once a search has delivered a non-empty ranked list its cycle is over
\* without an error, whatever the counter call does: the cycle does not wait
\* for the counter, and a failing counter call sets no error message.
C3_CounterNeverPropagates ==
    \A c \in Cycles :
        (cycles[c].query # <<>> /\ cycles[c].didSetMovieList
         /\ Len(cycles[c].sortedResults) > 0 /\ cycles[c].pc = "done")
        => /\ cycles[c].error = ""
           /\ (lastRun.cycle = c => errorMessage = "")

\* the occurrences <<response, position>> of an item in the responses
Occurrences(responses) ==
    {o \in (1..Len(responses)) \X (1..TopN) :
        o[2] <= Len(responses[o[1]].results)}

ItemAt(responses, o) == responses[o[1]].results[o[2]]

Before(o1, o2) == o1[1] < o2[1] \/ (o1[1] = o2[1] /\ o1[2] < o2[2])

\* the first occurrences of the identifiers, in the order of the requests
FirstOccurrences(responses) ==
    {o \in Occurrences(responses) :
        \A o2 \in Occurrences(responses) :
            ItemAt(responses, o2).id = ItemAt(responses, o).id => ~Before(o2, o)}

\* C4: the merged result holds every identifier of the responses exactly
\* once, each with its first occurrence in the order the requests were made,
\* and in the order of these first occurrences; the identifiers of the ranked
\* list are pairwise different too.
C4_MergeKeepsFirstOccurrence ==
    \A c \in Cycles :
        JustMerged(c)
        => LET R == lastRun.responses
               U == lastRun.uniqueResults
               Firsts == FirstOccurrences(R)
           IN  /\ DistinctIds(U)
               /\ DistinctIds(movieList)
               /\ Len(U) = Cardinality(Firsts)
               /\ \A k \in 1..Len(U) :
                      \E o \in Firsts : ItemAt(R, o) = U[k]
               /\ \A k \in 1..(Len(U) - 1) :
                      \E o1, o2 \in Firsts :
                          /\ ItemAt(R, o1) = U[k]
                          /\ ItemAt(R, o2) = U[k + 1]
                          /\ Before(o1, o2)

\* two responses hold the same identifier with different contents, and the
\* merged result holds the contents of the earlier response
C4_Witness ==
    \E c \in Cycles :
        /\ JustMerged(c)
        /\ \E o1, o2 \in Occurrences(lastRun.responses) :
               /\ o1[1] < o2[1]
               /\ ItemAt(lastRun.responses, o1).id = ItemAt(lastRun.responses, o2).id
               /\ ItemAt(lastRun.responses, o1) # ItemAt(lastRun.responses, o2)
               /\ o1 \in FirstOccurrences(lastRun.responses)
               /\ \E k \in 1..Len(lastRun.uniqueResults) :
                      lastRun.uniqueResults[k] = ItemAt(lastRun.responses, o1)

\* C5: the list a search delivers has min(20, number of merged items)
\* entries, each a merged item with its score for the query, in descending
\* order of score, and no merged item left out scores more than one delivered.
C5_RankedTopTwenty ==
    \A c \in Cycles :
        JustMerged(c)
        => LET U == lastRun.uniqueResults
               q == cycles[c].query
           IN  /\ Len(movieList) <= Min(TopN, Len(U))
               /\ Len(movieList) = Min(TopN, Len(U))
               /\ \A k \in 1..Len(movieList) :
                      /\ \E u \in 1..Len(U) : U[u] = Unscored(movieList[k])
                      /\ movieList[k].relevanceScore
                             = RelevanceScores[q][Unscored(movieList[k])]
               /\ \A k \in 1..(Len(movieList) - 1) :
                      movieList[k].relevanceScore >= movieList[k + 1].relevanceScore
               /\ \A u \in 1..Len(U) :
                      (\A k \in 1..Len(movieList) : movieList[k].id # U[u].id)
                      => \A k \in 1..Len(movieList) :
                             RelevanceScores[q][U[u]] <= movieList[k].relevanceScore

\* more than 20 merged items, 20 delivered, scores not all equal, and the
\* merged order was not already the ranked one
C5_Witness ==
    \E c \in Cycles :
        /\ JustMerged(c)
        /\ Len(lastRun.uniqueResults) > TopN
        /\ Len(movieList) = TopN
        /\ movieList[1].relevanceScore > movieList[TopN].relevanceScore
        /\ Unscored(movieList[1]) # lastRun.uniqueResults[1]

\* what the correction table maps a term to, inherited names aside
TableLookup(term) ==
    IF trim(toLowerCase(term)) \in DOMAIN corrections
    THEN corrections[trim(toLowerCase(term))]
    ELSE term

\* the number of spaces of a string
Spaces(s) == Cardinality({k \in 1..Len(s) : s[k] = " "})

\* the batch of a normalized query: the query, its variations number 1 to 3,
\* its words when it has a space, its first three characters
BatchOf(normalizedQuery) ==
    LET variations == generateSearchVariations(normalizedQuery)
        nVariations == Min(3, Len(variations) - 1)
        nWords == IF Spaces(normalizedQuery) > 0
                  THEN Spaces(normalizedQuery) + 1 ELSE 0
    IN  [k \in 1..(nVariations + nWords + 2) |->
            SearchRequest(
                IF k = 1 THEN normalizedQuery
                ELSE IF k <= 1 + nVariations THEN variations[k]
                ELSE IF k <= 1 + nVariations + nWords
                     THEN split(normalizedQuery)[k - 1 - nVariations]
                ELSE SubSeq(normalizedQuery, 1, Min(3, Len(normalizedQuery))))]

\* C6: every non-empty query dispatches exactly the batch of its normalized
\* form, each request once.
C6_BatchOfEveryQuery ==
    \A c \in Cycles :
        cycles[c].query # <<>>
        => cycles[c].requests = BatchOf(TableLookup(cycles[c].query))

\* the batch rule for the queries the correction lookup returns a string for,
\* with the two batches the specification spells out
BatchOfStringQueries ==
    \A c \in Cycles :
        (cycles[c].query # <<>>
         /\ trim(toLowerCase(cycles[c].query)) \notin InheritedKeys)
        => /\ cycles[c].requests = BatchOf(TableLookup(cycles[c].query))
           /\ cycles[c].query = S_xmen
              => cycles[c].requests =
                     <<SearchRequest(S_x_men),
                       SearchRequest(<<"x","-","m","i","n">>),
                       SearchRequest(<<"x","-","m","a","n">>),
                       SearchRequest(<<"x","-","m">>)>>
           /\ cycles[c].query = S_iron_man
              => /\ Len(cycles[c].requests) = 7
                 /\ cycles[c].requests[1] = SearchRequest(S_iron_man)
                 /\ cycles[c].requests[5] = SearchRequest(<<"i","r","o","n">>)
                 /\ cycles[c].requests[6] = SearchRequest(<<"m","a","n">>)
                 /\ cycles[c].requests[7] = SearchRequest(<<"i","r","o">>)

\* the delivered entries titled "Spider-Man" of a search for "spiderman"
SpiderManEntries(c) ==
    {k \in 1..Len(movieList) :
        JustMerged(c) /\ cycles[c].query = S_spiderman
        /\ movieList[k].title = T_SpiderMan}

C8_CounterCalledOnceWithRawQuery ==
    \A c \in Cycles :
        /\ Len(cycles[c].counterCalls) <= 1
        /\ cycles[c].counterCalls # <<>>
           <=> (cycles[c].query # <<>> /\ cycles[c].didSetMovieList
                /\ Len(cycles[c].sortedResults) > 0)
        /\ cycles[c].counterCalls # <<>>
           => /\ cycles[c].counterCalls[1].query = cycles[c].query
              /\ cycles[c].counterCalls[1].movie = cycles[c].sortedResults[1]
        /\ (JustMerged(c) /\ cycles[c].counterCalls # <<>>)
           => /\ movieList = cycles[c].sortedResults
              /\ cycles[c].counterCalls[1].movie = movieList[1]
        /\ (JustMerged(c) /\ cycles[c].pc = "done")
           => (movieList = <<>> /\ cycles[c].counterCalls = <<>>)

\* a counter call with a raw query that differs from the processed one, and a
\* search that ended with an empty list and no call
C8_Witness ==
    /\ \E c \in Cycles :
           /\ JustMerged(c)
           /\ cycles[c].pc = "awaitCounter"
           /\ cycles[c].query = S_spiderman
           /\ preprocessSearchTerm(cycles[c].query) # cycles[c].query
           /\ cycles[c].counterCalls[1].query = S_spiderman
           /\ Len(movieList) > 1

\* C9: once every cycle has settled, the movie list and the error message
\* are those of the newest cycle.
C9_NewestCycleWins ==
    (Len(cycles) >= 2 /\ \A c \in Cycles : cycles[c].pc = "done")
    => LET newest == cycles[Len(cycles)]
       IN  /\ newest.didSetMovieList => movieList = newest.sortedResults
           /\ errorMessage = (IF newest.error # "" THEN ErrorText ELSE "")

\* C10: isLoading is true while a cycle is in flight.
C10_LoadingWhileInFlight ==
    (\E c \in Cycles : cycles[c].pc # "done") => isLoading

====
